---- MODULE Spec2Model ----
(***************************************************************************)
(* Palmer Penguins dashboard (server.py): the cached warehouse connection, *)
(* the cached data load, the sidebar filter, the metrics and the script    *)
(* run of main() with its single try/except boundary.                      *)
(*                                                                         *)
(* Two specifications share the pure operators below:                      *)
(*   SpecFilter  render_sidebar / render_metrics applied to every table of *)
(*               at most MaxRows rows and every selection the widgets can  *)
(*               return;                                                   *)
(*   Spec        the process: sessions running main() stage by stage over  *)
(*               the process-wide caches, the clock and the warehouse.     *)
(***************************************************************************)
EXTENDS Integers, Sequences, FiniteSets, TLC

VARIABLES
    \* ---- render_sidebar(df) / render_metrics(df) in isolation (SpecFilter)
    df,             \* the Observation Table handed to render_sidebar
    species,        \* value of the "Species" multiselect
    islands,        \* value of the "Island" multiselect
    sex_filter,     \* value of the "Sex" multiselect
    filtered,       \* the frame render_sidebar returned in this run
    sidebar_text,   \* the "Showing N of M" line of the sidebar
    metrics,        \* the st.metric elements render_metrics emitted
    fpc,            \* position of the run: "sidebar", "metrics", "done"
    \* ---- the process (Spec)
    DEPLOYMENT_ENV,     \* module global, read once at import
    CONNECTION_TIMEOUT, \* module global, read once at import
    schema,             \* columns of <db>.PUBLIC.PENGUINS in the warehouse
    warehouse,          \* rows of <db>.PUBLIC.PENGUINS in the warehouse
    now,                \* the monotonic clock, in seconds
    conn_cache,         \* st.cache_resource entry of get_db_connection
    conn_broken,        \* the cached handle has suffered a connection fault
    data_cache,         \* st.cache_data(ttl=300) entry of load_penguins_data
    pc,                 \* per session: the stage main() is at
    main_df,            \* per session: main's local df
    filtered_df,        \* per session: main's local filtered_df
    widgets,            \* per session: the widget state kept across reruns
    body,               \* per session: elements emitted to the page in this run
    sidebar,            \* per session: elements emitted to the sidebar in this run
    exc,                \* per session: the exception in flight / handled
    escaped,            \* per session: an exception left main() uncaught
    \* ---- history of the calls made (observations, never read by the code)
    handles,            \* number of handles connect() has returned
    used_handle,        \* per session: id of the handle this run's SELECT ran on, 0 if none
    query_log           \* the last execution of the SELECT: time, handle, outcome

filter_vars == <<df, species, islands, sex_filter, filtered, sidebar_text, metrics, fpc>>
process_vars == <<DEPLOYMENT_ENV, CONNECTION_TIMEOUT, schema, warehouse, now, conn_cache,
                  conn_broken, data_cache, pc, main_df, filtered_df, widgets,
                  body, sidebar, exc, escaped>>
history_vars == <<handles, used_handle, query_log>>
vars == <<filter_vars, process_vars, history_vars>>

(***************************************************************************)
(* Bounds of the model.                                                    *)
(***************************************************************************)
MaxRows == 2        \* rows of the tables SpecFilter enumerates
MaxTime == 300      \* the clock stops advancing here
MaxInserts == 1     \* rows other writers add to the warehouse table

(***************************************************************************)
(* Values.                                                                 *)
(***************************************************************************)
NA == "<NA>"        \* a missing value of a text column (None / NaN)
NaN == -1           \* a missing value of a numeric column (NaN)
None == "None"      \* Python None / no value yet

SpeciesValues == {"Adelie", "Gentoo"}
IslandValues == {"Biscoe", "Dream"}
SexValues == {"FEMALE", "MALE"}

\* Python's order on the strings above (code-point order), as sorted() uses it.
Alphabetical == <<"Adelie", "Biscoe", "Dream", "FEMALE", "Gentoo", "MALE">>

Columns == {"SPECIES", "ISLAND", "BILL_LENGTH_MM", "BILL_DEPTH_MM",
            "FLIPPER_LENGTH_MM", "BODY_MASS_G", "SEX"}

(***************************************************************************)
(* A DataFrame: its columns and its rows in order; idx is the row's index  *)
(* label, which boolean-mask selection keeps.  The two bill columns carry  *)
(* no value here: no code path reads them.                                 *)
(***************************************************************************)
Frame(cols, rs) == [columns |-> cols, rows |-> rs]

EmptyFrame == Frame(Columns, <<>>)

\* cur.fetch_pandas_all(): the fetched rows under a fresh RangeIndex.
WithRangeIndex(cells) ==
    [i \in DOMAIN cells |->
        [idx |-> i - 1, SPECIES |-> cells[i].SPECIES, ISLAND |-> cells[i].ISLAND,
         SEX |-> cells[i].SEX, FLIPPER_LENGTH_MM |-> cells[i].FLIPPER_LENGTH_MM,
         BODY_MASS_G |-> cells[i].BODY_MASS_G]]

\* len(df)
FrameLen(d) == Len(d.rows)

\* df[c] raises KeyError when the frame has no column c.
HasColumn(d, c) == c \in d.columns

\* df[c].unique(): the distinct values, a missing value among them.
Unique(d, c) == {d.rows[i][c] : i \in DOMAIN d.rows}

\* Series.dropna() on a text column.
DropNa(S) == S \ {NA}

\* sorted(values)
Sorted(S) == SelectSeq(Alphabetical, LAMBDA v : v \in S)

\* Series.isin(values): membership in the list given.
Isin(v, values) == \E i \in DOMAIN values : values[i] = v

\* The options (and defaults) the three multiselects are built with.
SpeciesOptions(d) == Sorted(Unique(d, "SPECIES"))
IslandOptions(d) == Sorted(Unique(d, "ISLAND"))
\* (Faulty variant of SexOptions: the dropna() forgotten.)
SexOptionsKeepNa(d) == Sorted(Unique(d, "SEX")) \o
                           (IF NA \in Unique(d, "SEX") THEN <<NA>> ELSE <<>>)
SexOptions(d) == Sorted(DropNa(Unique(d, "SEX")))

\* The boolean mask of render_sidebar, one row at a time.
\* (Faulty variants of KeepRow: | written for &; ~ applied to the sex test.)
KeepRowAnyDimension(r, sp, isl, sx) ==
    Isin(r.SPECIES, sp) \/ Isin(r.ISLAND, isl) \/ Isin(r.SEX, sx)
KeepRowComplement(r, sp, isl, sx) ==
    Isin(r.SPECIES, sp) /\ Isin(r.ISLAND, isl) /\ ~Isin(r.SEX, sx)
KeepRow(r, sp, isl, sx) ==
    Isin(r.SPECIES, sp) /\ Isin(r.ISLAND, isl) /\ Isin(r.SEX, sx)

\* df[mask]: the rows the mask keeps, in order, with their index labels.
FilterRows(d, sp, isl, sx) ==
    Frame(d.columns, SelectSeq(d.rows, LAMBDA r : KeepRow(r, sp, isl, sx)))

\* f"{n:,}": decimal digits in groups of three.
Pad3(n) == IF n < 10 THEN "00" \o ToString(n)
           ELSE IF n < 100 THEN "0" \o ToString(n) ELSE ToString(n)

RECURSIVE FormatThousands(_)
FormatThousands(n) ==
    IF n < 1000 THEN ToString(n)
    ELSE FormatThousands(n \div 1000) \o "," \o Pad3(n % 1000)

\* df[c].nunique(): distinct values, missing ones not counted.
NUnique(d, c) == Cardinality(Unique(d, c) \ {NA})

\* df["BODY_MASS_G"].mean(): missing values skipped; <<sum, count>> of the rest.
RECURSIVE SumMass(_)
SumMass(rs) ==
    IF rs = <<>> THEN <<0, 0>>
    ELSE LET rest == SumMass(Tail(rs))
             m == Head(rs).BODY_MASS_G
         IN  IF m = NaN THEN rest ELSE <<rest[1] + m, rest[2] + 1>>

MeanMass(d) == SumMass(d.rows)

\* f"{avg_mass:,.0f}g": nan prints as "nan"; otherwise the value rounded to an
\* integer, ties to even, digits grouped.
FormatMass(avg) ==
    IF avg[2] = 0 THEN "nang"
    ELSE LET q == avg[1] \div avg[2]
             r == avg[1] % avg[2]
             n == IF 2 * r < avg[2] THEN q
                  ELSE IF 2 * r > avg[2] THEN q + 1
                  ELSE IF q % 2 = 0 THEN q ELSE q + 1
         IN  FormatThousands(n) \o "g"

\* A page element.
Element(kind, label, value) == [kind |-> kind, label |-> label, value |-> value]

\* The st.metric calls of render_metrics, in order, up to the first that raises.
MetricElements(d) ==
    <<Element("metric", "Total Penguins", FormatThousands(FrameLen(d))),
      Element("metric", "Species", ToString(NUnique(d, "SPECIES"))),
      Element("metric", "Islands", ToString(NUnique(d, "ISLAND")))>>
    \o (IF HasColumn(d, "BODY_MASS_G")
        THEN <<Element("metric", "Avg Body Mass", FormatMass(MeanMass(d)))>>
        ELSE <<>>)

\* The sidebar's closing line.
ShowingText(f, d) ==
    "Showing " \o FormatThousands(FrameLen(f)) \o " of "
               \o FormatThousands(FrameLen(d)) \o " penguins"

(***************************************************************************)
(* SpecFilter: render_sidebar and render_metrics on every small table.     *)
(***************************************************************************)
FlipperOf(sp) == IF sp = "Adelie" THEN 190 ELSE 217
MassOf(sp, isl, sx) ==
    IF sx = NA /\ isl = "Dream" THEN NaN
    ELSE IF sp = "Adelie" THEN 3700 ELSE 5075

\* The rows a table is drawn from: every species, island and sex (missing
\* included), with and without a body mass.
CellPool ==
    {[SPECIES |-> sp, ISLAND |-> isl, SEX |-> sx,
      FLIPPER_LENGTH_MM |-> FlipperOf(sp), BODY_MASS_G |-> MassOf(sp, isl, sx)] :
        sp \in SpeciesValues, isl \in IslandValues, sx \in SexValues \cup {NA}}

Tables == {Frame(Columns, WithRangeIndex(c)) :
              c \in UNION {[1..k -> CellPool] : k \in 0..MaxRows}}

\* Every value a multiselect built on `options` can return.
Selections(options) ==
    {Sorted(S) : S \in SUBSET {options[i] : i \in DOMAIN options}}

ProcessIdle ==
    /\ DEPLOYMENT_ENV = "LOCAL"
    /\ CONNECTION_TIMEOUT = 15
    /\ schema = Columns
    /\ warehouse = <<>>
    /\ now = 0
    /\ conn_cache = <<>>
    /\ conn_broken = FALSE
    /\ data_cache = <<>>
    /\ pc = <<>>
    /\ main_df = <<>>
    /\ filtered_df = <<>>
    /\ widgets = <<>>
    /\ body = <<>>
    /\ sidebar = <<>>
    /\ exc = <<>>
    /\ escaped = <<>>
    /\ handles = 0
    /\ used_handle = <<>>
    /\ query_log = <<>>

\* First run of the script on a table: every multiselect holds its default,
\* which is the full option list.
InitFilter ==
    /\ df \in Tables
    /\ species = SpeciesOptions(df)
    /\ islands = IslandOptions(df)
    /\ sex_filter = SexOptions(df)
    /\ filtered = EmptyFrame
    /\ sidebar_text = ""
    /\ metrics = <<>>
    /\ fpc = "sidebar"
    /\ ProcessIdle

\* render_sidebar(df): the three multiselects return the widget state, the
\* mask is applied, the count line is written, the frame is returned.
RenderSidebar ==
    /\ fpc = "sidebar"
    /\ filtered' = FilterRows(df, species, islands, sex_filter)
    /\ sidebar_text' = ShowingText(filtered', df)
    /\ fpc' = "metrics"
    /\ UNCHANGED <<df, species, islands, sex_filter, metrics>>
    /\ UNCHANGED <<process_vars, history_vars>>

\* render_metrics(filtered_df)
RenderMetrics ==
    /\ fpc = "metrics"
    /\ metrics' = MetricElements(filtered)
    /\ fpc' = "done"
    /\ UNCHANGED <<df, species, islands, sex_filter, filtered, sidebar_text>>
    /\ UNCHANGED <<process_vars, history_vars>>

\* The user changes the selection; the framework reruns the script.
ChangeSelection ==
    /\ fpc = "done"
    /\ species' \in Selections(SpeciesOptions(df))
    /\ islands' \in Selections(IslandOptions(df))
    /\ sex_filter' \in Selections(SexOptions(df))
    /\ filtered' = EmptyFrame
    /\ sidebar_text' = ""
    /\ metrics' = <<>>
    /\ fpc' = "sidebar"
    /\ UNCHANGED df
    /\ UNCHANGED <<process_vars, history_vars>>

NextFilter == RenderSidebar \/ RenderMetrics \/ ChangeSelection

SpecFilter == InitFilter /\ [][NextFilter]_vars

(***************************************************************************)
(* Spec: the process.                                                      *)
(***************************************************************************)
Sessions == {"s1", "s2"}

\* CONNECTION_TIMEOUT when SNOWFLAKE_CONNECTION_TIMEOUT is unset.
DefaultTimeout == 15

\* The deployments explored, as <<DEPLOYMENT_ENV, CONNECTION_TIMEOUT, columns of
\* the table>>: the three recognised modes and an unrecognised one, the default
\* timeout and a configured one, the table as deployed (in the remote-hosted
\* mode and in another) and the table with one expected column absent.
Deployments ==
    {<<"AWS", DefaultTimeout, Columns>>,
     <<"AWS", 5, Columns \ {"FLIPPER_LENGTH_MM"}>>,
     <<"DOCKER", DefaultTimeout, Columns \ {"BODY_MASS_G"}>>,
     <<"LOCAL", 5, Columns \ {"SEX"}>>,
     <<"STAGING", DefaultTimeout, Columns>>}

\* The rows of the table at process start and the rows other writers add.
Cell(sp, isl, sx) ==
    [SPECIES |-> sp, ISLAND |-> isl, SEX |-> sx,
     FLIPPER_LENGTH_MM |-> FlipperOf(sp), BODY_MASS_G |-> MassOf(sp, isl, sx)]
InitialCells == <<Cell("Adelie", "Dream", "MALE"), Cell("Gentoo", "Biscoe", "FEMALE"),
                  Cell("Adelie", "Dream", NA)>>
InsertedCell == Cell("Gentoo", "Dream", "FEMALE")

\* The instants at which the model looks at the process: around the first and
\* the second expiry of an entry cached at 0.
Instants == {0, 299, 300, 301, 599, 600, 601}

\* @st.cache_data(ttl=300)
TTL == 300

\* os.environ of the process, and the [snowflake] table of secrets.toml.
Environ == [SNOWFLAKE_ACCOUNT |-> "env-account", SNOWFLAKE_USER |-> "env-user",
            SNOWFLAKE_PASSWORD |-> "env-password", SNOWFLAKE_ROLE |-> "env-role",
            DEMO_DATABASE |-> "env-database"]
Secrets == [account |-> "toml-account", user |-> "toml-user",
            password |-> "toml-password", warehouse |-> "toml-warehouse"]

\* os.getenv(name) and os.getenv(name, default)
Getenv(name) == IF name \in DOMAIN Environ THEN Environ[name] ELSE None
GetenvOr(name, default) == IF name \in DOMAIN Environ THEN Environ[name] ELSE default

\* The keyword arguments get_db_connection passes to snowflake.connector.connect.
Timeouts == [login_timeout |-> CONNECTION_TIMEOUT, network_timeout |-> CONNECTION_TIMEOUT]

WorkloadIdentityKwargs ==
    [account |-> Getenv("SNOWFLAKE_ACCOUNT"),
     authenticator |-> "WORKLOAD_IDENTITY",
     workload_identity_provider |-> "AWS",
     warehouse |-> GetenvOr("SNOWFLAKE_WAREHOUSE", "COMPUTE_WH"),
     role |-> Getenv("SNOWFLAKE_ROLE"),
     user |-> Getenv("SNOWFLAKE_USER")] @@ Timeouts

PasswordKwargs ==
    [account |-> Getenv("SNOWFLAKE_ACCOUNT"),
     user |-> Getenv("SNOWFLAKE_USER"),
     password |-> Getenv("SNOWFLAKE_PASSWORD"),
     warehouse |-> GetenvOr("SNOWFLAKE_WAREHOUSE", "COMPUTE_WH"),
     role |-> Getenv("SNOWFLAKE_ROLE"),
     database |-> Getenv("DEMO_DATABASE")] @@ Timeouts

SecretsKwargs == Secrets @@ Timeouts

\* (Faulty variant of ConnectKwargs: the DOCKER branch missing.)
ConnectKwargsNoDockerBranch ==
    IF DEPLOYMENT_ENV = "AWS" THEN WorkloadIdentityKwargs ELSE SecretsKwargs
ConnectKwargs ==
    IF DEPLOYMENT_ENV = "AWS" THEN WorkloadIdentityKwargs
    ELSE IF DEPLOYMENT_ENV = "DOCKER" THEN PasswordKwargs
    ELSE SecretsKwargs

\* @st.cache_resource: the entry get_db_connection's callers are served from.
\* (Faulty variant: the entry is dropped once its connection has failed.)
CachedConnectionDroppedOnFault == IF conn_broken THEN <<>> ELSE conn_cache
CachedConnection == conn_cache

\* @st.cache_data(ttl=300): the entry is served while younger than the ttl.
\* (Faulty variant: the ttl argument left out.)
CacheValidForever == data_cache # <<>>
CacheValid == data_cache # <<>> /\ now - data_cache[1].created < TTL

\* cur.fetch_pandas_all() on SELECT * FROM <db>.PUBLIC.PENGUINS
Fetched == Frame(schema, WithRangeIndex(warehouse))

\* The statements of main() inside its try block, by stage.  render_header()
\* is called before the try; it reads no data and has no raising path.
\* (Faulty variant: the try block closed after the load.)
TryBodyLoadOnly == {"load"}
TryBody == {"load", "sidebar", "metrics", "charts", "table", "footer"}

\* Where an exception raised at `stage` of main() takes the run.
Lands(stage) == IF stage \in TryBody THEN "except" ELSE "escaped"

\* An exception: its message and the stage of main() its traceback starts in.
Exception(stage, e) == [msg |-> e, at |-> stage]
NoException == Exception("", "")

\* The state of the three multiselects of a session: <<>> while the user has
\* not touched the widget, <<value>> once they have.
NoWidgetState == [species |-> <<>>, islands |-> <<>>, sex |-> <<>>]

Init ==
    /\ df = EmptyFrame
    /\ species = <<>>
    /\ islands = <<>>
    /\ sex_filter = <<>>
    /\ filtered = EmptyFrame
    /\ sidebar_text = ""
    /\ metrics = <<>>
    /\ fpc = "off"
    /\ \E dep \in Deployments :
          /\ DEPLOYMENT_ENV = dep[1]
          /\ CONNECTION_TIMEOUT = dep[2]
          /\ schema = dep[3]
    /\ warehouse = InitialCells
    /\ now = 0
    /\ conn_cache = <<>>
    /\ conn_broken = FALSE
    /\ data_cache = <<>>
    /\ pc = [s \in Sessions |-> "idle"]
    /\ main_df = [s \in Sessions |-> EmptyFrame]
    /\ filtered_df = [s \in Sessions |-> EmptyFrame]
    /\ widgets = [s \in Sessions |-> NoWidgetState]
    /\ body = [s \in Sessions |-> <<>>]
    /\ sidebar = [s \in Sessions |-> <<>>]
    /\ exc = [s \in Sessions |-> NoException]
    /\ escaped = [s \in Sessions |-> FALSE]
    /\ handles = 0
    /\ used_handle = [s \in Sessions |-> 0]
    /\ query_log = <<>>

(***************************************************************************)
(* The stages of main() as pure functions of what they are given: the      *)
(* elements emitted up to the first statement that raises, and the         *)
(* exception raised ("" when the stage completes).                         *)
(***************************************************************************)
RECURSIVE JoinComma(_)
JoinComma(xs) ==
    IF xs = <<>> THEN ""
    ELSE IF Len(xs) = 1 THEN xs[1]
    ELSE xs[1] \o "," \o JoinComma(Tail(xs))

KeyError(c) == "KeyError: '" \o c \o "'"

\* render_header(): the badge of the deployment mode and the title.
BadgeLabel ==
    IF DEPLOYMENT_ENV = "AWS" THEN "AWS App Runner"
    ELSE IF DEPLOYMENT_ENV = "DOCKER" THEN "Docker"
    ELSE IF DEPLOYMENT_ENV = "LOCAL" THEN "Local Dev"
    ELSE "Unknown"

HeaderElements == <<Element("markdown", "header", BadgeLabel)>>

\* The value of the three multiselects: the widget state once the user has
\* set it, their default (every option) before.
Selection(d, w) ==
    [species |-> IF w.species # <<>> THEN w.species[1] ELSE SpeciesOptions(d),
     islands |-> IF w.islands # <<>> THEN w.islands[1] ELSE IslandOptions(d),
     sex |-> IF w.sex # <<>> THEN w.sex[1] ELSE SexOptions(d)]

\* render_sidebar(df)
SidebarStage(d, w) ==
    LET sel == Selection(d, w)
        title == <<Element("markdown", "", "### Filters")>>
        m1 == Element("multiselect", "Species", JoinComma(sel.species))
        m2 == Element("multiselect", "Island", JoinComma(sel.islands))
        m3 == Element("multiselect", "Sex", JoinComma(sel.sex))
        f == FilterRows(d, sel.species, sel.islands, sel.sex)
    IN  IF ~HasColumn(d, "SPECIES")
        THEN [emitted |-> title, raised |-> KeyError("SPECIES"), value |-> EmptyFrame]
        ELSE IF ~HasColumn(d, "ISLAND")
        THEN [emitted |-> title \o <<m1>>, raised |-> KeyError("ISLAND"),
              value |-> EmptyFrame]
        ELSE IF ~HasColumn(d, "SEX")
        THEN [emitted |-> title \o <<m1, m2>>, raised |-> KeyError("SEX"),
              value |-> EmptyFrame]
        ELSE [emitted |-> title \o <<m1, m2, m3, Element("markdown", "", "---"),
                                     Element("markdown", "", ShowingText(f, d))>>,
              raised |-> "", value |-> f]

\* render_metrics(filtered_df)
MetricsStage(d) ==
    [emitted |-> MetricElements(d),
     raised |-> IF HasColumn(d, "BODY_MASS_G") THEN "" ELSE KeyError("BODY_MASS_G")]

\* st.markdown("---"); render_charts(filtered_df)
ChartsStage(d) ==
    LET bars == <<Element("markdown", "", "---"),
                  Element("markdown", "", "Species Distribution"),
                  Element("bar_chart", "SPECIES", ToString(NUnique(d, "SPECIES"))),
                  Element("markdown", "", "Penguins by Island"),
                  Element("bar_chart", "ISLAND", ToString(NUnique(d, "ISLAND"))),
                  Element("markdown", "", "Body Mass vs Flipper Length")>>
        plotted == SelectSeq(d.rows, LAMBDA r : r.BODY_MASS_G # NaN)
    IN  IF ~HasColumn(d, "FLIPPER_LENGTH_MM")
        THEN [emitted |-> bars, raised |-> KeyError("FLIPPER_LENGTH_MM")]
        ELSE IF ~HasColumn(d, "BODY_MASS_G")
        THEN [emitted |-> bars, raised |-> KeyError("BODY_MASS_G")]
        ELSE [emitted |-> bars \o <<Element("scatter_chart", "", ToString(Len(plotted)))>>,
              raised |-> ""]

\* st.markdown("---"); render_data_table(filtered_df): the heading, then
\* st.dataframe, which the installed framework may reject.
TableHeading == <<Element("markdown", "", "---"), Element("markdown", "", "Data Table")>>
TableElements(d) == TableHeading \o <<Element("dataframe", "", ToString(FrameLen(d)))>>

\* The footer of main().
FooterElements == <<Element("markdown", "", "---"),
                    Element("caption", "", "Running on " \o DEPLOYMENT_ENV)>>

\* The except block of main().
\* (Faulty variant: the footer written after the messages, as a finally would.)
ErrorElementsThenFooter(e) ==
    <<Element("error", "", "Failed to load data: " \o e)>>
    \o (IF DEPLOYMENT_ENV = "AWS"
        THEN <<Element("warning", "", "AWS Workload Identity Check")>> ELSE <<>>)
    \o <<Element("info", "", "Please check your database connection and try again.")>>
    \o FooterElements
ErrorElements(e) ==
    <<Element("error", "", "Failed to load data: " \o e)>>
    \o (IF DEPLOYMENT_ENV = "AWS"
        THEN <<Element("warning", "", "AWS Workload Identity Check")>> ELSE <<>>)
    \o <<Element("info", "", "Please check your database connection and try again.")>>

(***************************************************************************)
(* Actions of the process.                                                 *)
(***************************************************************************)
Environment == <<DEPLOYMENT_ENV, CONNECTION_TIMEOUT, schema>>

\* A stage of session s raises e: control goes where Lands says.
Raise(s, stage, e) ==
    /\ pc' = [pc EXCEPT ![s] = Lands(stage)]
    /\ exc' = [exc EXCEPT ![s] = Exception(stage, e)]
    /\ escaped' = [escaped EXCEPT ![s] = (Lands(stage) = "escaped")]

\* The script starts: main() calls render_header().  The page of a run is what
\* the run emits: elements of the run before are stale and are dropped.
RunHeader(s) ==
    /\ pc' = [pc EXCEPT ![s] = "load"]
    /\ body' = [body EXCEPT ![s] = HeaderElements]
    /\ sidebar' = [sidebar EXCEPT ![s] = <<>>]
    /\ exc' = [exc EXCEPT ![s] = NoException]
    /\ escaped' = [escaped EXCEPT ![s] = FALSE]
    /\ main_df' = [main_df EXCEPT ![s] = EmptyFrame]
    /\ filtered_df' = [filtered_df EXCEPT ![s] = EmptyFrame]
    /\ used_handle' = [used_handle EXCEPT ![s] = 0]
    /\ UNCHANGED <<Environment, warehouse, now, conn_cache, conn_broken, data_cache>>
    /\ UNCHANGED <<filter_vars, handles, query_log>>

\* The species selections a user makes in this model.
InteractChoices == {<<>>}

\* A session opens the page.
Start(s) ==
    /\ pc[s] = "idle"
    /\ RunHeader(s)
    /\ UNCHANGED widgets

\* The page is reloaded: the script runs again with the widget state kept.
Rerun(s) ==
    /\ pc[s] \in {"done", "failed", "escaped"}
    /\ RunHeader(s)
    /\ UNCHANGED widgets

\* The user deselects every species of a rendered sidebar: the script runs
\* again with the new widget state.
Interact(s) ==
    /\ pc[s] = "done"
    /\ \E sp \in InteractChoices :
           widgets' = [widgets EXCEPT ![s].species = <<sp>>]
    /\ RunHeader(s)

\* The load actions are the whole call `with st.spinner(...): df =
\* load_penguins_data()`; the framework computes a cached function under a
\* lock, so a call is one step.  The spinner is shown and removed within the
\* step, on return and on exception alike, and leaves nothing on the page.

\* load_penguins_data() served from the cache: no call of the function body.
LoadHit(s) ==
    /\ pc[s] = "load"
    /\ CacheValid
    /\ main_df' = [main_df EXCEPT ![s] = data_cache[1].value]
    /\ pc' = [pc EXCEPT ![s] = "sidebar"]
    /\ UNCHANGED <<Environment, warehouse, now, conn_cache, conn_broken, data_cache,
                   filtered_df, widgets, body, sidebar, exc, escaped>>
    /\ UNCHANGED <<filter_vars, history_vars>>

\* load_penguins_data() runs; get_db_connection() runs and connect() raises.
\* Nothing is cached; an expired entry is gone.
LoadConnectFail(s) ==
    /\ pc[s] = "load"
    /\ ~CacheValid
    /\ CachedConnection = <<>>
    /\ conn_cache' = <<>>
    /\ data_cache' = <<>>
    /\ Raise(s, "load", "OperationalError: could not connect")
    /\ UNCHANGED <<Environment, warehouse, now, conn_broken,
                   main_df, filtered_df, widgets, body, sidebar>>
    /\ UNCHANGED <<filter_vars, history_vars>>

\* get_db_connection() as load_penguins_data() calls it on a miss: the cached
\* handle, or a handle connect() returns now, which is cached.
GetConnection ==
    /\ conn_cache' = IF CachedConnection # <<>> THEN CachedConnection
                     ELSE <<[id |-> handles + 1, kwargs |-> ConnectKwargs]>>
    /\ handles' = IF CachedConnection # <<>> THEN handles ELSE handles + 1

\* load_penguins_data() runs and cur.execute / fetch_pandas_all raises: always
\* on a handle that has suffered a fault, possibly on a sound one.
LoadQueryFail(s) ==
    /\ pc[s] = "load"
    /\ ~CacheValid
    /\ GetConnection
    /\ conn_broken' = (CachedConnection # <<>> /\ conn_broken)
    /\ data_cache' = <<>>
    /\ used_handle' = [used_handle EXCEPT ![s] = conn_cache'[1].id]
    /\ query_log' = <<[at |-> now, handle |-> conn_cache'[1].id, ok |-> FALSE,
                       result |-> <<>>]>>
    /\ Raise(s, "load", "ProgrammingError: query failed")
    /\ UNCHANGED <<Environment, warehouse, now,
                   main_df, filtered_df, widgets, body, sidebar>>
    /\ UNCHANGED filter_vars

\* load_penguins_data() runs on a sound handle: the table is fetched, cached
\* with the time of the call, and returned.
LoadOk(s) ==
    /\ pc[s] = "load"
    /\ ~CacheValid
    /\ ~(CachedConnection # <<>> /\ conn_broken)
    /\ GetConnection
    /\ conn_broken' = FALSE
    /\ data_cache' = <<[value |-> Fetched, created |-> now]>>
    /\ used_handle' = [used_handle EXCEPT ![s] = conn_cache'[1].id]
    /\ query_log' = <<[at |-> now, handle |-> conn_cache'[1].id, ok |-> TRUE,
                       result |-> <<Fetched>>]>>
    /\ main_df' = [main_df EXCEPT ![s] = Fetched]
    /\ pc' = [pc EXCEPT ![s] = "sidebar"]
    /\ UNCHANGED <<Environment, warehouse, now,
                   filtered_df, widgets, body, sidebar, exc, escaped>>
    /\ UNCHANGED filter_vars

\* A stage that only renders: its elements go to the page, and it either
\* completes (control moves to `next`) or raises.  The locals of main() are
\* dead once the try block is left.
Render(s, stage, out, next) ==
    /\ body' = [body EXCEPT ![s] = @ \o out.emitted]
    /\ IF out.raised = ""
       THEN pc' = [pc EXCEPT ![s] = next] /\ UNCHANGED <<exc, escaped>>
       ELSE Raise(s, stage, out.raised)
    /\ IF next = "done" \/ out.raised # ""
       THEN /\ main_df' = [main_df EXCEPT ![s] = EmptyFrame]
            /\ filtered_df' = [filtered_df EXCEPT ![s] = EmptyFrame]
       ELSE UNCHANGED <<main_df, filtered_df>>
    /\ UNCHANGED <<Environment, warehouse, now, conn_cache, conn_broken, data_cache,
                   widgets, sidebar>>
    /\ UNCHANGED <<filter_vars, history_vars>>

\* filtered_df = render_sidebar(df)
Sidebar(s) ==
    /\ pc[s] = "sidebar"
    /\ LET out == SidebarStage(main_df[s], widgets[s]) IN
         /\ sidebar' = [sidebar EXCEPT ![s] = @ \o out.emitted]
         /\ filtered_df' = [filtered_df EXCEPT ![s] = out.value]
         /\ main_df' = [main_df EXCEPT ![s] = IF out.raised = "" THEN @ ELSE EmptyFrame]
         /\ IF out.raised = ""
            THEN pc' = [pc EXCEPT ![s] = "metrics"] /\ UNCHANGED <<exc, escaped>>
            ELSE Raise(s, "sidebar", out.raised)
    /\ UNCHANGED <<Environment, warehouse, now, conn_cache, conn_broken, data_cache,
                   widgets, body>>
    /\ UNCHANGED <<filter_vars, history_vars>>

\* render_metrics(filtered_df)
Metrics(s) ==
    /\ pc[s] = "metrics"
    /\ Render(s, "metrics", MetricsStage(filtered_df[s]), "charts")

\* render_charts(filtered_df)
Charts(s) ==
    /\ pc[s] = "charts"
    /\ Render(s, "charts", ChartsStage(filtered_df[s]), "table")

\* render_data_table(filtered_df) completes.
Table(s) ==
    /\ pc[s] = "table"
    /\ Render(s, "table", [emitted |-> TableElements(filtered_df[s]), raised |-> ""],
              "footer")

\* render_data_table(filtered_df): st.dataframe raises.
TableFail(s) ==
    /\ pc[s] = "table"
    /\ Render(s, "table",
              [emitted |-> TableHeading,
               raised |-> "StreamlitAPIException: invalid width"], "footer")

\* The footer; main() returns.
Footer(s) ==
    /\ pc[s] = "footer"
    /\ Render(s, "footer", [emitted |-> FooterElements, raised |-> ""], "done")

\* except Exception as e: the messages; main() returns.
Except(s) ==
    /\ pc[s] = "except"
    /\ body' = [body EXCEPT ![s] = @ \o ErrorElements(exc[s].msg)]
    /\ pc' = [pc EXCEPT ![s] = "failed"]
    /\ UNCHANGED <<Environment, warehouse, now, conn_cache, conn_broken, data_cache,
                   main_df, filtered_df, widgets, sidebar, exc, escaped>>
    /\ UNCHANGED <<filter_vars, history_vars>>

\* Time passes.
Tick ==
    /\ \E t \in Instants : t > now /\ t <= MaxTime /\ now' = t
    /\ UNCHANGED <<Environment, warehouse, conn_cache, conn_broken, data_cache, pc,
                   main_df, filtered_df, widgets, body, sidebar, exc, escaped>>
    /\ UNCHANGED <<filter_vars, history_vars>>

\* The cached handle's connection drops.
ConnectionFault ==
    /\ conn_cache # <<>>
    /\ ~conn_broken
    /\ conn_broken' = TRUE
    /\ UNCHANGED <<Environment, warehouse, now, conn_cache, data_cache, pc,
                   main_df, filtered_df, widgets, body, sidebar, exc, escaped>>
    /\ UNCHANGED <<filter_vars, history_vars>>

\* Another writer adds a row to the warehouse table.
WarehouseInsert ==
    /\ Len(warehouse) < Len(InitialCells) + MaxInserts
    /\ warehouse' = Append(warehouse, InsertedCell)
    /\ UNCHANGED <<Environment, now, conn_cache, conn_broken, data_cache, pc,
                   main_df, filtered_df, widgets, body, sidebar, exc, escaped>>
    /\ UNCHANGED <<filter_vars, history_vars>>

Next ==
    \/ \E s \in Sessions :
          \/ Start(s) \/ Rerun(s) \/ Interact(s)
          \/ LoadHit(s) \/ LoadConnectFail(s) \/ LoadQueryFail(s) \/ LoadOk(s)
          \/ Sidebar(s) \/ Metrics(s) \/ Charts(s) \/ Table(s) \/ TableFail(s)
          \/ Footer(s) \/ Except(s)
    \/ Tick
    \/ ConnectionFault
    \/ WarehouseInsert

Spec == Init /\ [][Next]_vars

(***************************************************************************)
(* Properties of render_sidebar and render_metrics (under SpecFilter).     *)
(***************************************************************************)
SidebarDone == fpc \in {"metrics", "done"}

DefaultSelection ==
    /\ species = SpeciesOptions(df)
    /\ islands = IslandOptions(df)
    /\ sex_filter = SexOptions(df)

\* The set of values a selection holds.
Chosen(sel) == {sel[i] : i \in DOMAIN sel}

\* The rows of a frame as a set (index labels tell equal rows apart).
RowSet(d) == {d.rows[i] : i \in DOMAIN d.rows}

\* C1: with the full default option set selected in all three dimensions,
\* the frame render_sidebar returns is the whole table: the same rows, in
\* order, none dropped and none duplicated.
C1_DefaultSelectionReproducesTable ==
    (SidebarDone /\ DefaultSelection) => filtered.rows = df.rows

\* C2: with every island and every sex option selected and a set S of species
\* selected, the filtered view is exactly the rows whose species is in S, and
\* the "Total Penguins" metric shows the number of those rows.
C2_SpeciesSelectionExact ==
    (fpc = "done" /\ islands = IslandOptions(df) /\ sex_filter = SexOptions(df)) =>
        LET expected == SelectSeq(df.rows, LAMBDA r : r.SPECIES \in Chosen(species))
        IN  /\ filtered.rows = expected
            /\ metrics[1] = Element("metric", "Total Penguins",
                                    FormatThousands(Len(expected)))

\* C7: when the selected set of any one dimension is empty, the filtered view
\* is empty and render_metrics completes, showing a count of 0, 0 distinct
\* species, 0 distinct islands and a NaN mean body mass.
C7_EmptySelectionEmptyView ==
    (fpc = "done" /\ (species = <<>> \/ islands = <<>> \/ sex_filter = <<>>)) =>
        /\ filtered.rows = <<>>
        /\ metrics = <<Element("metric", "Total Penguins", "0"),
                       Element("metric", "Species", "0"),
                       Element("metric", "Islands", "0"),
                       Element("metric", "Avg Body Mass", "nang")>>

C7_Witness ==
    /\ fpc = "done"
    /\ Len(df.rows) >= 1
    /\ \A i \in DOMAIN df.rows : df.rows[i].SEX # NA /\ df.rows[i].BODY_MASS_G # NaN
    /\ species # <<>> /\ islands = IslandOptions(df) /\ sex_filter = <<>>
    /\ Len(metrics) = 4

\* C8: a selection that is smaller in one dimension and equal in the other
\* two yields a filtered view that is a subset of, and no longer than, the
\* view of the larger selection.
C8_FilterMonotonic ==
    SidebarDone =>
        /\ \A sp \in Selections(SpeciesOptions(df)) :
              Chosen(species) \subseteq Chosen(sp) =>
                  LET larger == FilterRows(df, sp, islands, sex_filter)
                  IN  RowSet(filtered) \subseteq RowSet(larger)
                      /\ FrameLen(filtered) <= FrameLen(larger)
        /\ \A isl \in Selections(IslandOptions(df)) :
              Chosen(islands) \subseteq Chosen(isl) =>
                  LET larger == FilterRows(df, species, isl, sex_filter)
                  IN  RowSet(filtered) \subseteq RowSet(larger)
                      /\ FrameLen(filtered) <= FrameLen(larger)
        /\ \A sx \in Selections(SexOptions(df)) :
              Chosen(sex_filter) \subseteq Chosen(sx) =>
                  LET larger == FilterRows(df, species, islands, sx)
                  IN  RowSet(filtered) \subseteq RowSet(larger)
                      /\ FrameLen(filtered) <= FrameLen(larger)

C8_Witness ==
    /\ SidebarDone
    /\ species = SpeciesOptions(df) /\ islands = IslandOptions(df)
    /\ Len(sex_filter) = 1 /\ Len(SexOptions(df)) = 2
    /\ FrameLen(filtered) = 1
    /\ FrameLen(FilterRows(df, species, islands, SexOptions(df))) = 2

\* C10: whatever is selected, no row whose sex is missing is in the frame
\* render_sidebar returns; so when the table has such a row, the N of
\* "Showing N of M" is strictly less than M.
C10_MissingSexNeverShown ==
    SidebarDone =>
        /\ \A i \in DOMAIN filtered.rows : filtered.rows[i].SEX # NA
        /\ NA \in Unique(df, "SEX") =>
              /\ FrameLen(filtered) < FrameLen(df)
              /\ \E n \in 0..(FrameLen(df) - 1) :
                    sidebar_text = "Showing " \o ToString(n) \o " of "
                                   \o ToString(FrameLen(df)) \o " penguins"

C10_Witness ==
    /\ SidebarDone /\ DefaultSelection
    /\ NA \in Unique(df, "SEX")
    /\ FrameLen(filtered) = 1 /\ FrameLen(df) = 2

(***************************************************************************)
(* Properties of the process (under Spec).                                 *)
(***************************************************************************)
Shown(s, kind) == \E i \in DOMAIN body[s] : body[s][i].kind = kind

\* C3: a failure raised by a stage of main() does not leave main(): the run
\* ends with the error message that carries the failure's description on the
\* page, and with the troubleshooting checklist exactly when DEPLOYMENT_ENV
\* is AWS.
C3_FailureHandled ==
    \A s \in Sessions :
        /\ ~escaped[s]
        /\ pc[s] # "escaped"
        /\ exc[s] # NoException => pc[s] \in {"except", "failed"}
        /\ pc[s] = "failed" =>
              /\ exc[s] # NoException
              /\ \E i \in DOMAIN body[s] :
                    body[s][i] = Element("error", "", "Failed to load data: " \o exc[s].msg)
              /\ Shown(s, "warning") <=> DEPLOYMENT_ENV = "AWS"

C3_Witness ==
    \E s \in Sessions :
        /\ pc[s] = "failed"
        /\ DEPLOYMENT_ENV = "AWS"
        /\ exc[s].at = "charts"
        /\ Shown(s, "warning")

\* C4, as stated: a load within 300 seconds of the load that last executed
\* the query returns the cached table without executing the query; a load
\* once the 300 seconds have elapsed executes it.
C4_AsStated ==
    [][\A s \in Sessions :
          (pc[s] = "load" /\ pc'[s] # "load" /\ query_log # <<>>) =>
              /\ now - query_log[1].at < TTL =>
                    /\ used_handle'[s] = 0
                    /\ query_log' = query_log
                    /\ pc'[s] = "sidebar"
              /\ now - query_log[1].at >= TTL =>
                    /\ used_handle'[s] # 0
                    /\ query_log'[1].at = now]_vars

\* C4, amended: a load within 300 seconds of the load that last executed the
\* query with success returns the table that execution fetched and does not
\* execute the query; a load after a failed execution, or once the 300
\* seconds have elapsed, executes it.
C4_TtlCache ==
    [][\A s \in Sessions :
          (pc[s] = "load" /\ pc'[s] # "load" /\ query_log # <<>>) =>
              /\ (query_log[1].ok /\ now - query_log[1].at < TTL) =>
                    /\ used_handle'[s] = 0
                    /\ query_log' = query_log
                    /\ pc'[s] = "sidebar"
                    /\ main_df'[s] = query_log[1].result[1]
              /\ (~query_log[1].ok \/ now - query_log[1].at >= TTL) =>
                    /\ used_handle'[s] # 0
                    /\ query_log'[1].at = now]_vars

\* One session holds the table a hit returned (three rows, although the
\* warehouse has four by now), the other the table fetched again after expiry.
C4_Witness ==
    \E s, t \in Sessions :
        /\ pc[s] = "sidebar" /\ used_handle[s] = 0 /\ FrameLen(main_df[s]) = 3
        /\ pc[t] = "sidebar" /\ used_handle[t] # 0 /\ FrameLen(main_df[t]) = 4
        /\ query_log[1].ok /\ query_log[1].at >= TTL

\* The elements of the page of a failed run, by the stage that raised.
IsFooter(e) == e.kind = "caption"
BodyBelowHeader(s) == SubSeq(body[s], Len(HeaderElements) + 1, Len(body[s]))

\* C5, as stated: after a failure at any stage, the page below the header
\* holds the error messages and nothing else.
C5_AsStated ==
    \A s \in Sessions :
        pc[s] = "failed" => BodyBelowHeader(s) = ErrorElements(exc[s].msg)

\* C5, amended: after a failure at connection, load or sidebar filtering, the
\* page below the header holds the error messages and nothing else; after a
\* failure at a later stage it holds what the run had emitted before the
\* failure (at least the first three metrics), then the error messages; in
\* no case does it hold the footer.
C5_FailurePage ==
    \A s \in Sessions :
        pc[s] = "failed" =>
            LET below == BodyBelowHeader(s)
                n == Len(below) - Len(ErrorElements(exc[s].msg))
            IN  /\ n >= 0
                /\ SubSeq(below, n + 1, Len(below)) = ErrorElements(exc[s].msg)
                /\ \A i \in 1..Len(below) : ~IsFooter(below[i])
                /\ exc[s].at \in {"load", "sidebar"} => n = 0
                /\ exc[s].at \in {"metrics", "charts", "table"} =>
                      /\ n >= 3
                      /\ \A i \in 1..3 : below[i].kind = "metric"
                      /\ \A i \in 1..n : below[i].kind \notin {"error", "warning", "info"}

C5_Witness ==
    \E s \in Sessions :
        /\ pc[s] = "failed"
        /\ exc[s].at = "table"
        /\ Shown(s, "metric") /\ Shown(s, "scatter_chart")

\* C6: once connect() has returned a handle, that handle stays the cached
\* one: no step replaces or drops it, no second handle is ever made, every
\* execution of the query in every session runs on it, and after a connection
\* fault the next execution fails on that same handle.
C6_OneHandle ==
    [][/\ conn_cache # <<>> => (conn_cache' = conn_cache /\ handles' = handles)
       /\ handles' <= 1
       /\ \A s \in Sessions :
             /\ used_handle'[s] # 0 =>
                   (conn_cache' # <<>> /\ used_handle'[s] = conn_cache'[1].id)
             /\ (conn_broken /\ pc[s] = "load" /\ pc'[s] # "load" /\ used_handle'[s] # 0)
                   => (pc'[s] = "except" /\ conn_broken')]_vars

C6_Witness ==
    /\ conn_broken
    /\ handles = 1
    /\ query_log # <<>> /\ ~query_log[1].ok /\ query_log[1].at >= TTL
    /\ \A s \in Sessions : used_handle[s] = conn_cache[1].id /\ pc[s] = "failed"

\* C9: the handle was made with the keyword arguments of the mode: AWS with
\* the workload-identity authenticator and no password, DOCKER with account,
\* user, password, warehouse, role and database from the environment, LOCAL
\* and every other value with the secret store's bundle; always with both
\* timeouts set to CONNECTION_TIMEOUT.
C9_CredentialPath ==
    conn_cache # <<>> =>
        LET kw == conn_cache[1].kwargs
            credentials == DOMAIN kw \ {"login_timeout", "network_timeout"}
        IN  /\ {"login_timeout", "network_timeout"} \subseteq DOMAIN kw
            /\ kw.login_timeout = CONNECTION_TIMEOUT
            /\ kw.network_timeout = CONNECTION_TIMEOUT
            /\ DEPLOYMENT_ENV = "AWS" =>
                  /\ credentials = {"account", "authenticator", "workload_identity_provider",
                                    "warehouse", "role", "user"}
                  /\ kw.authenticator = "WORKLOAD_IDENTITY"
                  /\ kw.workload_identity_provider = "AWS"
                  /\ kw.account = Environ.SNOWFLAKE_ACCOUNT
            /\ DEPLOYMENT_ENV = "DOCKER" =>
                  /\ credentials = {"account", "user", "password", "warehouse",
                                    "role", "database"}
                  /\ kw.account = Environ.SNOWFLAKE_ACCOUNT
                  /\ kw.user = Environ.SNOWFLAKE_USER
                  /\ kw.password = Environ.SNOWFLAKE_PASSWORD
                  /\ kw.role = Environ.SNOWFLAKE_ROLE
                  /\ kw.database = Environ.DEMO_DATABASE
                  /\ kw.warehouse = "COMPUTE_WH"
            /\ DEPLOYMENT_ENV \notin {"AWS", "DOCKER"} =>
                  /\ credentials = DOMAIN Secrets
                  /\ \A k \in DOMAIN Secrets : kw[k] = Secrets[k]

C9_Witness ==
    /\ conn_cache # <<>>
    /\ DEPLOYMENT_ENV \notin {"AWS", "DOCKER", "LOCAL"}
    /\ conn_cache[1].kwargs.password = Secrets.password
    /\ CONNECTION_TIMEOUT = DefaultTimeout

====
